---- MODULE Spec2Model ----
(***************************************************************************)
(* Model of the SQLite-to-markdown exporter (src/exportmd.py) and of its   *)
(* older version (src/export-to-markdown.py).                              *)
(*                                                                         *)
(* A Python str is a sequence of one-character strings, so that prefix     *)
(* tests, stripping, replacing and joining are computed character by       *)
(* character, as the runtime does.                                         *)
(***************************************************************************)
EXTENDS Integers, Sequences, FiniteSets, TLC

VARIABLES pc, sql, comments, title, body, table, md, mdOld,
          argv, files, dirs, made, opened, out

vars == <<pc, sql, comments, title, body, table, md, mdOld,
          argv, files, dirs, made, opened, out>>

-----------------------------------------------------------------------------
(* Bounds of the model *)

MaxSqlLen == 6

\* a query result has at most MaxCells values (columns times rows)
MaxCells == 4

SeqsUpTo(S, n) == UNION {[1..k -> S] : k \in 0..n}

-----------------------------------------------------------------------------
(* str methods used by the program *)

LineBreaks == {"\n", "\r"}

SqlChars == {"-", " ", "a", "\n", "\r"}

\* str.splitlines(): break at \n, \r and \r\n; no empty last line
RECURSIVE SplitFrom(_, _, _, _)
SplitFrom(s, i, cur, acc) ==
    IF i > Len(s)
    THEN IF cur = <<>> THEN acc ELSE Append(acc, cur)
    ELSE IF s[i] \in LineBreaks
         THEN IF s[i] = "\r" /\ i < Len(s) /\ s[i + 1] = "\n"
              THEN SplitFrom(s, i + 2, <<>>, Append(acc, cur))
              ELSE SplitFrom(s, i + 1, <<>>, Append(acc, cur))
         ELSE SplitFrom(s, i + 1, Append(cur, s[i]), acc)

splitlines(s) == SplitFrom(s, 1, <<>>, <<>>)

\* str.lstrip(chars): drop every leading character that is in chars
RECURSIVE lstrip(_, _)
lstrip(s, chars) ==
    IF s # <<>> /\ Head(s) \in chars THEN lstrip(Tail(s), chars) ELSE s

\* str.rstrip(chars): drop every trailing character that is in chars
RECURSIVE rstrip(_, _)
rstrip(s, chars) ==
    IF s # <<>> /\ s[Len(s)] \in chars
    THEN rstrip(SubSeq(s, 1, Len(s) - 1), chars)
    ELSE s

\* line.startswith('-')  (a prefix test one character too short)
StartsWithOneDash(line) == Len(line) >= 1 /\ line[1] = "-"

\* line.startswith('--')
StartsWithMarker(line) == Len(line) >= 2 /\ line[1] = "-" /\ line[2] = "-"

\* line.lstrip('- ').rstrip(' \r\n')
StripComment(line) == rstrip(lstrip(line, {"-", " "}), {" ", "\r", "\n"})

\* the loop of get_header_comments, from line i on
RECURSIVE HeaderFrom(_, _, _)
HeaderFrom(lines, i, acc) ==
    IF i > Len(lines) THEN acc
    ELSE IF StartsWithMarker(lines[i])
         THEN HeaderFrom(lines, i + 1, Append(acc, StripComment(lines[i])))
         ELSE acc

get_header_comments(s) == HeaderFrom(splitlines(s), 1, <<>>)

-----------------------------------------------------------------------------
(* Values of a result row, as the sqlite3 driver hands them over *)

Null == [t |-> "null", n |-> 0, s |-> <<>>]

IntVal(k) == [t |-> "int", n |-> k, s |-> <<>>]

\* a float that is a whole number of halves: FloatVal(5) is 2.5
FloatVal(halves) == [t |-> "float", n |-> halves, s |-> <<>>]

Text(str) == [t |-> "str", n |-> 0, s |-> str]

\* bytes of printable ASCII without quote or backslash
Blob(bytes) == [t |-> "bytes", n |-> 0, s |-> bytes]

DigitChars == <<"0", "1", "2", "3", "4", "5", "6", "7", "8", "9">>

RECURSIVE Decimal(_)
Decimal(k) ==
    IF k < 10 THEN <<DigitChars[k + 1]>>
    ELSE Decimal(k \div 10) \o <<DigitChars[(k % 10) + 1]>>

Abs(k) == IF k < 0 THEN -k ELSE k

Sign(k) == IF k < 0 THEN <<"-">> ELSE <<>>

\* str(i) of a non-null value
str(v) ==
    CASE v.t = "int" -> Sign(v.n) \o Decimal(Abs(v.n))
      [] v.t = "float" ->
            Sign(v.n) \o Decimal(Abs(v.n) \div 2)
                \o (IF Abs(v.n) % 2 = 0 THEN <<".", "0">> ELSE <<".", "5">>)
      [] v.t = "str" -> v.s
      [] v.t = "bytes" -> <<"b", "'">> \o v.s \o <<"'">>
      [] OTHER -> <<"N", "o", "n", "e">>

\* isinstance(val, int)  (floats not counted)
IsInt(v) == v.t = "int"

\* isinstance(val, int) or isinstance(val, float)
IsNumeric(v) == v.t = "int" \/ v.t = "float"

\* sep.join(cells)
RECURSIVE join(_, _)
join(sep, cells) ==
    IF cells = <<>> THEN <<>>
    ELSE IF Len(cells) = 1 THEN cells[1]
    ELSE cells[1] \o sep \o join(sep, Tail(cells))

\* field.replace('_', ' ')
replace_underscores(field) ==
    [i \in 1..Len(field) |-> IF field[i] = "_" THEN " " ELSE field[i]]

-----------------------------------------------------------------------------
(* create_markdown *)

Center == <<":", "-", ":", "|">>

Left == <<"-", "-", "-", "|">>

Returned(lines) == [status |-> "ok", lines |-> lines]

Raised(exception) == [status |-> exception, lines |-> <<>>]

\* the title lines
TitleLines(t) == << <<"#", " ">> \o t, <<>> >>

\* the body with a blank line after it, also when there is no body
BodyLinesAlways(b) == b \o << <<>> >>

\* the optional body, and a blank line if there was one
BodyLines(b) == IF Len(b) > 0 THEN b \o << <<>> >> ELSE <<>>

\* no check for row data
NeverEmpty(rows) == FALSE

\* len(rows) == 0
NoRowData(rows) == Len(rows) = 0

\* headings without the underscores replaced
RECURSIVE HeadingsRaw(_)
HeadingsRaw(fields) ==
    IF fields = <<>> THEN <<>>
    ELSE Head(fields) \o <<"|">> \o HeadingsRaw(Tail(fields))

\* the loop over the fields that appends 'name|' to the headings
RECURSIVE Headings(_)
Headings(fields) ==
    IF fields = <<>> THEN <<>>
    ELSE replace_underscores(Head(fields)) \o <<"|">> \o Headings(Tail(fields))

\* alignment of field i from the first row alone, None treated as text
FieldAlignmentFirstRow(rows, i, r) ==
    IF i > Len(rows[1]) THEN <<"IndexError">>
    ELSE IF IsNumeric(rows[1][i]) THEN Center ELSE Left

\* the inner loop: rows r, r+1, ... until a non-null value of field i;
\* row[i] of a row with no field i raises IndexError
RECURSIVE FieldAlignment(_, _, _)
FieldAlignment(rows, i, r) ==
    IF r > Len(rows) THEN Left
    ELSE IF i > Len(rows[r]) THEN <<"IndexError">>
    ELSE IF rows[r][i].t = "null" THEN FieldAlignment(rows, i, r + 1)
    ELSE IF IsNumeric(rows[r][i]) THEN Center
    ELSE Left

\* the loop over the fields by index, from field i on
RECURSIVE AlignmentFrom(_, _, _, _)
AlignmentFrom(fields, rows, i, acc) ==
    IF i > Len(fields) THEN Returned(acc)
    ELSE LET a == FieldAlignment(rows, i, 1)
         IN  IF a = <<"IndexError">> THEN Raised("IndexError")
             ELSE AlignmentFrom(fields, rows, i + 1, acc \o a)

\* a data line with str(i) of every value, None included
DataLineNoneAsText(row) ==
    <<"|">> \o join(<<"|">>, [i \in 1..Len(row) |-> str(row[i])]) \o <<"|">>

\* '|{}|'.format('|'.join([str(i) if i is not None else '' for i in row]))
DataLine(row) ==
    <<"|">> \o join(<<"|">>, [i \in 1..Len(row) |->
                                 IF row[i].t # "null" THEN str(row[i]) ELSE <<>>])
         \o <<"|">>

DataLines(rows) == [r \in 1..Len(rows) |-> DataLine(rows[r])]

create_markdown(t, b, tbl) ==
    LET lines == TitleLines(t) \o BodyLines(b)
    IN  IF Len(tbl) < 2 THEN Returned(lines)
        ELSE LET fields == tbl[1]
                 rows == tbl[2]
             IN  IF NoRowData(rows) THEN Returned(lines)
                 ELSE LET alignment == AlignmentFrom(fields, rows, 1, <<"|">>)
                      IN  IF alignment.status # "ok" THEN alignment
                          ELSE Returned(lines
                                   \o << <<"|">> \o Headings(fields) >>
                                   \o << alignment.lines >>
                                   \o DataLines(rows))

(* create_markdown of src/export-to-markdown.py *)

\* the loop over rows[0] that appends an alignment per value
RECURSIVE OldAlignment(_)
OldAlignment(row) ==
    IF row = <<>> THEN <<>>
    ELSE (IF IsNumeric(Head(row)) THEN Center ELSE Left) \o OldAlignment(Tail(row))

old_create_markdown(t, b, tbl) ==
    LET lines == TitleLines(t) \o BodyLines(b)
    IN  IF Len(tbl) < 2 THEN Returned(lines)
        ELSE LET fields == tbl[1]
                 rows == tbl[2]
             IN  IF Len(rows) = 0 THEN Returned(lines)
                 ELSE Returned(lines
                          \o << <<"|">> \o Headings(fields) >>
                          \o << <<"|">> \o OldAlignment(rows[1]) >>
                          \o DataLines(rows))

-----------------------------------------------------------------------------
(* Comment extraction applied to every bounded SQL text *)

NoResult == [status |-> "none", lines |-> <<>>]

InitComments ==
    /\ pc = "extract"
    /\ sql \in SeqsUpTo(SqlChars, MaxSqlLen)
    /\ comments = <<>>
    /\ title = <<>> /\ body = <<>> /\ table = <<>>
    /\ md = NoResult /\ mdOld = NoResult
    /\ argv = <<>> /\ files = {} /\ dirs = {} /\ made = {} /\ opened = <<>>
    /\ out = <<>>

ExtractComments ==
    /\ pc = "extract"
    /\ comments' = get_header_comments(sql)
    /\ pc' = "extracted"
    /\ UNCHANGED <<sql, title, body, table, md, mdOld,
                   argv, files, dirs, made, opened, out>>

NextComments == ExtractComments

SpecComments == InitComments /\ [][NextComments]_vars

-----------------------------------------------------------------------------
(* create_markdown applied to every bounded title, body and query result *)

Values == {Null, IntVal(-12), FloatVal(5), Text(<<>>), Text(<<"x", "|">>),
           Blob(<<"x">>)}

ColumnNames == << <<"i", "d">>, <<"f", "_", "n", "_">>, <<"a", "|", "b">>,
                  <<"_">> >>

\* n column names, starting at ColumnNames[k + 1]
Fields(n, k) == [i \in 1..n |-> ColumnNames[((i - 1 + k) % Len(ColumnNames)) + 1]]

Titles == {<<"q">>, <<"m", "y", "_", "q">>}

Bodies == {<<>>, << <<"L", "i", "s", "t", "s">>, <<>> >>}

Shapes == {nr \in (0..MaxCells) \X (0..MaxCells) : nr[1] * nr[2] <= MaxCells}

\* the results cursor.description and fetchall() give: every row has a value
\* for every column
IsQueryResult(tbl) ==
    \E nr \in Shapes, k \in {0, 2} :
        \E rows \in [1..nr[2] -> [1..nr[1] -> Values]] :
            tbl = <<Fields(nr[1], k), rows>>

\* row b of the rows, one value short or one value long
Shorter(rows, b) ==
    [rows EXCEPT ![b] = SubSeq(rows[b], 1, Len(rows[b]) - 1)]

Longer(rows, b) == [rows EXCEPT ![b] = Append(rows[b], IntVal(7))]

\* what a caller other than main may pass: a row whose length differs from
\* the number of column names, or a tuple of fewer than two parts
IsMalformedResult(tbl) ==
    \E nr \in Shapes, k \in {0, 2} :
        \E rows \in [1..nr[2] -> [1..nr[1] -> Values]] :
            \E b \in 1..nr[2] :
                \/ tbl = <<Fields(nr[1], k), Longer(rows, b)>>
                \/ nr[1] > 0 /\ tbl = <<Fields(nr[1], k), Shorter(rows, b)>>

ShortTuples == {<<>>} \cup {<<Fields(n, 0)>> : n \in 0..2}

InitMarkdown ==
    /\ pc = "call"
    /\ \/ IsQueryResult(table)
       \/ IsMalformedResult(table)
       \/ table \in ShortTuples
    /\ title \in Titles
    /\ body \in Bodies
    /\ md = NoResult /\ mdOld = NoResult
    /\ sql = <<>> /\ comments = <<>>
    /\ argv = <<>> /\ files = {} /\ dirs = {} /\ made = {} /\ opened = <<>>
    /\ out = <<>>

CreateMarkdown ==
    /\ pc = "call"
    /\ md' = create_markdown(title, body, table)
    /\ pc' = "returned"
    /\ UNCHANGED <<sql, comments, title, body, table, mdOld,
                   argv, files, dirs, made, opened, out>>

NextMarkdown == CreateMarkdown

SpecMarkdown == InitMarkdown /\ [][NextMarkdown]_vars

(* both versions of create_markdown applied to the same query result *)

InitVersions ==
    /\ pc = "call"
    /\ \/ IsQueryResult(table)
       \/ table \in ShortTuples
    /\ title \in Titles
    /\ body \in Bodies
    /\ md = NoResult /\ mdOld = NoResult
    /\ sql = <<>> /\ comments = <<>>
    /\ argv = <<>> /\ files = {} /\ dirs = {} /\ made = {} /\ opened = <<>>
    /\ out = <<>>

CreateMarkdownOld ==
    /\ pc = "returned"
    /\ mdOld' = old_create_markdown(title, body, table)
    /\ pc' = "both"
    /\ UNCHANGED <<sql, comments, title, body, table, md,
                   argv, files, dirs, made, opened, out>>

NextVersions == CreateMarkdown \/ CreateMarkdownOld

SpecVersions == InitVersions /\ [][NextVersions]_vars

-----------------------------------------------------------------------------
(* os.path and the file system, for relative POSIX paths without '..' *)

\* the last index of character c in s, 0 if there is none
LastIndex(s, c) ==
    LET at == {i \in 1..Len(s) : s[i] = c}
    IN  IF at = {} THEN 0 ELSE CHOOSE i \in at : \A j \in at : j <= i

\* os.path.split(p): <<head, tail>>
split(p) ==
    LET i == LastIndex(p, "/")
        head == SubSeq(p, 1, i)
        tail == SubSeq(p, i + 1, Len(p))
    IN  IF head # <<>> /\ \E j \in 1..Len(head) : head[j] # "/"
        THEN <<rstrip(head, {"/"}), tail>>
        ELSE <<head, tail>>

\* os.path.splitext(p): <<root, ext>>; leading dots are no extension
splitext(p) ==
    LET sep == LastIndex(p, "/")
        dot == LastIndex(p, ".")
    IN  IF dot > sep /\ \E i \in (sep + 1)..(dot - 1) : p[i] # "."
        THEN <<SubSeq(p, 1, dot - 1), SubSeq(p, dot, Len(p))>>
        ELSE <<p, <<>> >>

\* os.path.join(a, b)
path_join(a, b) ==
    IF b # <<>> /\ b[1] = "/" THEN b
    ELSE IF a = <<>> \/ a[Len(a)] = "/" THEN a \o b
    ELSE a \o <<"/">> \o b

\* the components of p, as the system looks p up from the working directory
RECURSIVE ComponentsFrom(_, _, _, _)
ComponentsFrom(p, i, cur, acc) ==
    LET keep == IF cur = <<>> \/ cur = <<".">> THEN acc ELSE Append(acc, cur)
    IN  IF i > Len(p) THEN keep
        ELSE IF p[i] = "/" THEN ComponentsFrom(p, i + 1, <<>>, keep)
        ELSE ComponentsFrom(p, i + 1, Append(cur, p[i]), acc)

Resolve(p) == ComponentsFrom(p, 1, <<>>, <<>>)

\* os.path.isfile(p)
isfile(p) == p # <<>> /\ Resolve(p) \in DOMAIN files

\* os.path.exists(p)
exists(p) == p # <<>> /\ (Resolve(p) \in dirs \/ Resolve(p) \in DOMAIN files)

\* the directories os.makedirs(p) leaves in place
Ancestors(p) == {SubSeq(Resolve(p), 1, k) : k \in 0..Len(Resolve(p))}

\* f.writelines(map(lambda x: f"{x}\n", markdown))
RECURSIVE separate_lines(_)
separate_lines(markdown) ==
    IF markdown = <<>> THEN <<>>
    ELSE Head(markdown) \o <<"\n">> \o separate_lines(Tail(markdown))

-----------------------------------------------------------------------------
(* main *)

MARKDOWN_EXT == <<".", "m", "d">>

\* sql_file_dir == export_dir and sql_file_ext == MARKDOWN_EXT
WouldOverwriteSql(sql_file_dir, export_dir, sql_file_ext) ==
    sql_file_dir = export_dir /\ sql_file_ext = MARKDOWN_EXT

db_file == argv[2]

sql_file == argv[3]

sql_file_dir == split(sql_file)[1]

sql_file_with_ext == split(sql_file)[2]

sql_file_without_ext == splitext(sql_file_with_ext)[1]

sql_file_ext == splitext(sql_file_with_ext)[2]

export_dir == IF Len(argv) > 3 THEN argv[4] ELSE sql_file_dir

export_file == sql_file_without_ext \o MARKDOWN_EXT

export_path == path_join(export_dir, export_file)

print(message) == out' = Append(out, message)

\* len(sys.argv) < 3
DisplayHelp ==
    /\ pc = "main"
    /\ Len(argv) < 3
    /\ print("Expecting <database path> <sql path> [optional: <export dir>]")
    /\ pc' = "exit"
    /\ UNCHANGED <<sql, comments, title, body, table, md, mdOld,
                   argv, files, dirs, made, opened>>

DatabaseNotFound ==
    /\ pc = "main"
    /\ Len(argv) >= 3
    /\ ~isfile(db_file)
    /\ print("Database not found")
    /\ pc' = "exit"
    /\ UNCHANGED <<sql, comments, title, body, table, md, mdOld,
                   argv, files, dirs, made, opened>>

SqlFileNotFound ==
    /\ pc = "main"
    /\ Len(argv) >= 3
    /\ isfile(db_file)
    /\ ~isfile(sql_file)
    /\ print("SQL file not found")
    /\ pc' = "exit"
    /\ UNCHANGED <<sql, comments, title, body, table, md, mdOld,
                   argv, files, dirs, made, opened>>

SqlWouldBeOverwritten ==
    /\ pc = "main"
    /\ Len(argv) >= 3
    /\ isfile(db_file)
    /\ isfile(sql_file)
    /\ WouldOverwriteSql(sql_file_dir, export_dir, sql_file_ext)
    /\ print("SQL file cannot have same ext as markdown file")
    /\ pc' = "exit"
    /\ UNCHANGED <<sql, comments, title, body, table, md, mdOld,
                   argv, files, dirs, made, opened>>

\* the checks pass; read_query
ReadQuery ==
    /\ pc = "main"
    /\ Len(argv) >= 3
    /\ isfile(db_file)
    /\ isfile(sql_file)
    /\ ~WouldOverwriteSql(sql_file_dir, export_dir, sql_file_ext)
    /\ sql' = files[Resolve(sql_file)]
    /\ pc' = "query"
    /\ UNCHANGED <<comments, title, body, table, md, mdOld,
                   argv, files, dirs, made, opened, out>>

\* the rows the database may hold for the query
DatabaseResults ==
    {<<Fields(2, 0), << <<IntVal(1), Text(<<"A", "n", "n">>)>>, <<IntVal(2), Null>> >> >>,
     <<Fields(1, 0), <<>> >>}

\* cur.execute(sql) raises, or sql is no query and cur.description is None
QueryFails ==
    /\ pc = "query"
    /\ print("Error")
    /\ pc' = "exit"
    /\ UNCHANGED <<sql, comments, title, body, table, md, mdOld,
                   argv, files, dirs, made, opened>>

\* get_results, get_header_comments and create_markdown
QueryAndFormat ==
    /\ pc = "query"
    /\ \E results \in DatabaseResults :
          /\ table' = results
          /\ comments' = get_header_comments(sql)
          /\ title' = sql_file_without_ext
          /\ body' = get_header_comments(sql)
          /\ md' = create_markdown(sql_file_without_ext, get_header_comments(sql),
                                   results)
    /\ pc' = "mkdir"
    /\ UNCHANGED <<sql, mdOld, argv, files, dirs, made, opened, out>>

\* os.path.exists(export_dir)
ExportDirExists ==
    /\ pc = "mkdir"
    /\ exists(export_dir)
    /\ pc' = "export"
    /\ UNCHANGED <<sql, comments, title, body, table, md, mdOld,
                   argv, files, dirs, made, opened, out>>

\* os.makedirs(export_dir)
MakeDirs ==
    /\ pc = "mkdir"
    /\ ~exists(export_dir)
    /\ export_dir # <<>>
    /\ dirs' = dirs \cup Ancestors(export_dir)
    /\ made' = made \cup (Ancestors(export_dir) \ dirs)
    /\ pc' = "export"
    /\ UNCHANGED <<sql, comments, title, body, table, md, mdOld,
                   argv, files, opened, out>>

\* os.makedirs('') raises FileNotFoundError
MakeDirsFails ==
    /\ pc = "mkdir"
    /\ ~exists(export_dir)
    /\ export_dir = <<>>
    /\ print("Error")
    /\ pc' = "exit"
    /\ UNCHANGED <<sql, comments, title, body, table, md, mdOld,
                   argv, files, dirs, made, opened>>

\* export_to_file, conn.close() and the completion message; open(path, 'w')
\* raises when path is a directory or is in none
ExportToFile ==
    /\ pc = "export"
    /\ LET target == Resolve(export_path)
           parent == SubSeq(target, 1, Len(target) - 1)
       IN  IF target \in dirs \/ parent \notin dirs
           THEN /\ print("Error")
                /\ UNCHANGED <<files, opened>>
           ELSE /\ opened' = Append(opened, target)
                /\ files' = [f \in DOMAIN files \cup {target} |->
                               IF f = target THEN separate_lines(md.lines)
                               ELSE files[f]]
                /\ print("Export complete")
    /\ pc' = "exit"
    /\ UNCHANGED <<sql, comments, title, body, table, md, mdOld,
                   argv, dirs, made>>

(* the command lines and file systems main is run on *)

Program == <<"e", "x", "p", "o", "r", "t", "m", "d", ".", "p", "y">>

DbPath == <<"s", ".", "d", "b">>

SqlPaths == {<<"q", ".", "s", "q", "l">>, <<"q", ".", "m", "d">>,
             <<"d", "/", "q", ".", "m", "d">>, <<"d", "/", "q", ".", "s", "q", "l">>}

ExportDirs == {<<".">>, <<"d">>, <<"d", "/">>, <<".", "/", "d">>, <<"e">>,
               <<"e", "/", "f">>}

CommandLines ==
    {<<Program>>, <<Program, DbPath>>}
        \cup {<<Program, DbPath, s>> : s \in SqlPaths}
        \cup {<<Program, DbPath, s, e>> : s \in SqlPaths, e \in ExportDirs}

SqlTexts == {<<"-", "-", " ", "a", "\n", "S">>, <<"S">>}

WorkingDir == <<>>

DirD == << <<"d">> >>

DirE == << <<"e">> >>

InitMain ==
    /\ pc = "main"
    /\ argv \in CommandLines
    /\ dirs \in {{WorkingDir}, {WorkingDir, DirD}, {WorkingDir, DirD, DirE}}
    /\ \E present \in SUBSET ({DbPath} \cup {s \in SqlPaths : Ancestors(s) \ {Resolve(s)} \subseteq dirs}) :
          \E text \in SqlTexts :
              files = [f \in {Resolve(x) : x \in present} |->
                         IF f = Resolve(DbPath) THEN <<>> ELSE text]
    /\ made = {} /\ opened = <<>> /\ out = <<>>
    /\ sql = <<>> /\ comments = <<>>
    /\ title = <<>> /\ body = <<>> /\ table = <<>>
    /\ md = NoResult /\ mdOld = NoResult

NextMain ==
    \/ DisplayHelp
    \/ DatabaseNotFound
    \/ SqlFileNotFound
    \/ SqlWouldBeOverwritten
    \/ ReadQuery
    \/ QueryFails
    \/ QueryAndFormat
    \/ ExportDirExists
    \/ MakeDirs
    \/ MakeDirsFails
    \/ ExportToFile

SpecMain == InitMain /\ [][NextMain]_vars

-----------------------------------------------------------------------------
(* Properties of get_header_comments, checked under SpecComments *)

\* the line begins with the two characters '--' at column 1
BeginsWithTwoDashes(line) == Len(line) >= 2 /\ SubSeq(line, 1, 2) = <<"-", "-">>

\* the length of the longest prefix of the lines that all begin with '--'
HeaderLength(lines) ==
    CHOOSE k \in 0..Len(lines) :
        /\ \A i \in 1..k : BeginsWithTwoDashes(lines[i])
        /\ k < Len(lines) => ~BeginsWithTwoDashes(lines[k + 1])

\* C4: get_header_comments returns one entry per line of the longest prefix
\* of the SQL text's lines that all begin with '--', in line order, and
\* nothing else: lines after the first line without '--' never contribute,
\* empty input yields the empty sequence, and a line that is only '--'
\* yields an empty string.
C4_HeaderIsLongestPrefix ==
    pc = "extracted" =>
        LET lines == splitlines(sql)
        IN  /\ Len(comments) = HeaderLength(lines)
            /\ \A i \in 1..Len(comments) :
                  /\ comments[i] = StripComment(lines[i])
                  /\ lines[i] = <<"-", "-">> => comments[i] = <<>>
            /\ sql = <<>> => comments = <<>>

\* C4 witness: a header of one '--' line, a blank line, then a later '--'
\* line that is not extracted
C4_Witness ==
    /\ pc = "extracted"
    /\ sql = <<"-", "-", "\n", "\n", "-", "-">>
    /\ comments = << <<>> >>

Whitespace == {" ", "\t", "\n", "\r"}

\* the line without its two-character marker, without the spaces right after
\* the marker, and without trailing whitespace
MarkerAndSpacesRemoved(line) ==
    rstrip(lstrip(SubSeq(line, 3, Len(line)), {" "}), Whitespace)

\* C5: every recorded header comment equals its line with only the leading
\* marker '--' and the spaces right after it removed on the left and the
\* trailing whitespace removed on the right; a '-' after the marker or after
\* those spaces is kept.
C5_OnlyMarkerAndSpacesRemoved ==
    pc = "extracted" =>
        \A i \in 1..Len(comments) :
            comments[i] = MarkerAndSpacesRemoved(splitlines(sql)[i])

-----------------------------------------------------------------------------
(* Properties of create_markdown, checked under SpecMarkdown *)

\* the number of title and comment lines: '# <title>', '', and the comments
\* with one '' after them if there are any
PreambleLength == 2 + (IF body = <<>> THEN 0 ELSE Len(body) + 1)

Preamble ==
    << <<"#", " ">> \o title, <<>> >> \o (IF body = <<>> THEN <<>> ELSE Append(body, <<>>))

HasTwoParts == Len(table) = 2

NumColumns == Len(table[1])

NumRows == Len(table[2])

\* every row has one value per column name
WellFormed == HasTwoParts /\ \A r \in 1..NumRows : Len(table[2][r]) = NumColumns

CountChar(s, c) == Cardinality({i \in 1..Len(s) : s[i] = c})

HeadingLine == md.lines[PreambleLength + 1]

AlignmentLine == md.lines[PreambleLength + 2]

\* the rows in which column i is not null
NonNullRows(i) == {r \in 1..NumRows : table[2][r][i].t # "null"}

\* the first non-null value of column i is an integer or a float
FirstNonNullIsNumber(i) ==
    /\ NonNullRows(i) # {}
    /\ LET first == CHOOSE r \in NonNullRows(i) : \A q \in NonNullRows(i) : r <= q
       IN  table[2][first][i].t \in {"int", "float"}

\* C1: for a result with at least one row and every row of length N, the
\* i-th token of the alignment line is ':-:' exactly when the first non-null
\* value of column i in row order is an integer or a float, and '---' when
\* it is of another type or the column is all null; each column on its own.
C1_AlignmentFromFirstNonNull ==
    (pc = "returned" /\ WellFormed /\ NumRows >= 1) =>
        /\ md.status = "ok"
        /\ Len(AlignmentLine) = 4 * NumColumns + 1
        /\ \A i \in 1..NumColumns :
              SubSeq(AlignmentLine, 4 * i - 2, 4 * i) =
                  IF FirstNonNullIsNumber(i) THEN <<":", "-", ":">>
                  ELSE <<"-", "-", "-">>

\* C1 witness: column 1 is null in the first row and a float in the second,
\* column 2 is all null
C1_Witness ==
    /\ pc = "returned" /\ WellFormed /\ NumRows = 2 /\ NumColumns = 2
    /\ table[2][1] = <<Null, Null>>
    /\ table[2][2] = <<FloatVal(5), Null>>
    /\ AlignmentLine = <<"|", ":", "-", ":", "|", "-", "-", "-", "|">>

\* C2: a non-empty row sequence in which some row's length differs from the
\* number of column names makes create_markdown fail: no document with a
\* data line for the malformed row is returned.
C2_MalformedRowFails ==
    (/\ pc = "returned" /\ HasTwoParts /\ NumRows >= 1
     /\ \E r \in 1..NumRows : Len(table[2][r]) # NumColumns)
        => md.status # "ok"

TableLength == IF HasTwoParts /\ NumRows >= 1 THEN 2 + NumRows ELSE 0

\* C6: the output starts with '# <title>' and one empty line; a non-empty
\* comment sequence follows unchanged and in order, then exactly one empty
\* line; an empty one adds nothing; table lines come only after these.
C6_TitleThenCommentsThenTable ==
    (pc = "returned" /\ md.status = "ok") =>
        /\ md.lines[1] = <<"#", " ">> \o title
        /\ md.lines[2] = <<>>
        /\ body # <<>> =>
              /\ SubSeq(md.lines, 3, 2 + Len(body)) = body
              /\ md.lines[3 + Len(body)] = <<>>
        /\ Len(md.lines) = PreambleLength + TableLength
        /\ \A j \in (PreambleLength + 1)..Len(md.lines) :
              md.lines[j] # <<>> /\ md.lines[j][1] = "|"

\* C6 witness: no comments and a table: the heading line is the third line
C6_Witness ==
    /\ pc = "returned" /\ md.status = "ok" /\ body = <<>>
    /\ WellFormed /\ NumRows = 2
    /\ Len(md.lines) = 6 /\ md.lines[3][1] = "|"

\* the cell of a value: empty for null, its text otherwise
Cell(v) == IF v = Null THEN <<>> ELSE str(v)

\* C7: an emitted table is exactly 2 + R lines: the heading line, the
\* alignment line, then one data line per row in row order, the k-th being
\* '|' + the row's cells joined by '|' + '|', null giving the empty cell.
C7_TableIsHeadingAlignmentRows ==
    (pc = "returned" /\ WellFormed /\ NumRows >= 1) =>
        /\ md.status = "ok"
        /\ Len(md.lines) = PreambleLength + 2 + NumRows
        /\ HeadingLine = <<"|">> \o Headings(table[1])
        /\ {AlignmentLine[j] : j \in 1..Len(AlignmentLine)} \subseteq {"|", ":", "-"}
        /\ \A k \in 1..NumRows :
              md.lines[PreambleLength + 2 + k] =
                  <<"|">>
                    \o join(<<"|">>, [i \in 1..NumColumns |-> Cell(table[2][k][i])])
                    \o <<"|">>

\* C7 witness: a null and a zero-length text in one row give two empty cells
C7_Witness ==
    /\ pc = "returned" /\ WellFormed /\ NumRows = 2 /\ NumColumns = 2
    /\ table[2][1] = <<IntVal(-12), FloatVal(5)>>
    /\ table[2][2] = <<Null, Text(<<>>)>>
    /\ md.lines[PreambleLength + 3] = <<"|", "-", "1", "2", "|", "2", ".", "5", "|">>
    /\ md.lines[PreambleLength + 4] = <<"|", "|", "|">>

\* '|', then every column name with '_' replaced by ' ' and a '|' after it
RECURSIVE NamesWithPipes(_, _)
NamesWithPipes(names, i) ==
    IF i > Len(names) THEN <<>>
    ELSE [j \in 1..Len(names[i]) |-> IF names[i][j] = "_" THEN " " ELSE names[i][j]]
            \o <<"|">> \o NamesWithPipes(names, i + 1)

RECURSIVE PipesInNames(_, _)
PipesInNames(names, i) ==
    IF i > Len(names) THEN 0
    ELSE CountChar(names[i], "|") + PipesInNames(names, i + 1)

\* C8 as stated: for N column names and rows of length N, the heading line
\* and the alignment line each contain exactly N + 1 '|' characters, and
\* heading cell i is column name i with every underscore replaced by a space.
C8_HeadingAndAlignmentHaveNCells ==
    (pc = "returned" /\ WellFormed /\ NumRows >= 1) =>
        /\ HeadingLine = <<"|">> \o NamesWithPipes(table[1], 1)
        /\ CountChar(HeadingLine, "|") = NumColumns + 1
        /\ CountChar(AlignmentLine, "|") = NumColumns + 1

\* C8 amended: the alignment line contains exactly N + 1 '|' characters; the
\* heading line is '|' followed by every column name, underscores replaced
\* by spaces, each with a '|' after it, so it contains N + 1 '|' characters
\* plus those that occur in the column names.
C8_HeadingCellsAndAlignmentCells ==
    (pc = "returned" /\ WellFormed /\ NumRows >= 1) =>
        /\ HeadingLine = <<"|">> \o NamesWithPipes(table[1], 1)
        /\ CountChar(HeadingLine, "|") = NumColumns + 1 + PipesInNames(table[1], 1)
        /\ CountChar(AlignmentLine, "|") = NumColumns + 1

\* C8 witness: the names 'a|b' and '_' give the heading '|a|b| |'
C8_Witness ==
    /\ pc = "returned" /\ WellFormed /\ NumRows >= 1
    /\ table[1] = << <<"a", "|", "b">>, <<"_">> >>
    /\ HeadingLine = <<"|", "a", "|", "b", "|", " ", "|">>
    /\ CountChar(AlignmentLine, "|") = 3

-----------------------------------------------------------------------------
(* The two versions of create_markdown, checked under SpecVersions *)

\* C10: on a well-formed result the two versions return the same lines
\* exactly when every column that is null in the first row has no integer
\* or float as its first non-null value; they agree on zero rows and on a
\* first row without null.
C10_VersionsAgreeUnlessLaterNumber ==
    (pc = "both" /\ WellFormed) =>
        /\ md = mdOld <=>
              \A i \in 1..NumColumns :
                  (NumRows >= 1 /\ table[2][1][i] = Null) => ~FirstNonNullIsNumber(i)
        /\ NumRows = 0 => md = mdOld
        /\ (NumRows >= 1 /\ \A i \in 1..NumColumns : table[2][1][i] # Null)
              => md = mdOld

\* C10 witness: the versions differ on a column that is null in the first
\* row and an integer in the second
C10_Witness ==
    /\ pc = "both" /\ WellFormed /\ NumRows = 2 /\ NumColumns = 1
    /\ table[2] = << <<Null>>, <<IntVal(-12)>> >>
    /\ md.status = "ok" /\ mdOld.status = "ok"
    /\ md.lines[PreambleLength + 2] = <<"|", ":", "-", ":", "|">>
    /\ mdOld.lines[PreambleLength + 2] = <<"|", "-", "-", "-", "|">>

-----------------------------------------------------------------------------
(* Properties of main, checked under SpecMain *)

\* the output path <export-dir>/<sql-base-name>.md is the SQL file itself
OutputIsSqlFile == Resolve(export_path) = Resolve(sql_file)

ErrorMessages == {"Database not found", "SQL file not found",
                  "SQL file cannot have same ext as markdown file", "Error"}

\* C9: when the database file is missing, the SQL file is missing, or the
\* output path designates the SQL source file itself, main prints an error
\* message and returns having created no directory and not opened the output
\* file for writing.
C9_NoWriteWhenInputMissingOrOverwrite ==
    (/\ pc = "exit" /\ Len(argv) >= 3
     /\ \/ Resolve(db_file) \notin DOMAIN files
        \/ Resolve(sql_file) \notin DOMAIN files
        \/ OutputIsSqlFile)
        => /\ Len(out) = 1 /\ out[1] \in ErrorMessages
           /\ made = {}
           /\ opened = <<>>

====
